---- MODULE Spec2Model ----
(***************************************************************************)
(* Ingestion pipeline of the finance dashboard: the rate limiter, the      *)
(* retrying Alpha Vantage client with its equity fallback ladder, and the  *)
(* per-instrument loop of run().                                           *)
(*                                                                         *)
(* Four specifications share the variables, one per entry point:           *)
(*   SpecLimiter  a RateLimiter used sequentially against a monotonic      *)
(*                clock                                                    *)
(*   SpecRequest  one call of AlphaVantageClient._request                  *)
(*   SpecEquity   one call of AlphaVantageClient.fetch_equity_daily        *)
(*   Spec         one call of run()                                        *)
(* The client specifications observe the limiter through the number of     *)
(* wait() calls; its timing is the subject of SpecLimiter.                 *)
(***************************************************************************)
EXTENDS Integers, Sequences, FiniteSets, TLC

VARIABLES
    settings,      \* Settings: max_retries, alpha_vantage_min_interval_seconds
    stack,         \* call stack, outermost frame first
    pc,            \* position inside the innermost frame
    \* ---- AlphaVantageClient._request
    attempt,       \* loop variable of _request
    resp,          \* the response the last session.get returned
    reqOut,        \* how _request ended: return payload / raise error
    reqWaits,      \* rate_limiter.wait() calls of the current _request
    reqGets,       \* session.get calls of the current _request
    reqSleeps,     \* time.sleep(backoff_seconds) calls of the current _request
    thrSeen,       \* answers to the current _request with status 429 or a Note key
    thrJsonSeen,   \* those of them that were JSON objects without an Information key
    gets,          \* session.get calls since the client was constructed
    sleeps,        \* backoff sleeps since the client was constructed
    \* ---- AlphaVantageClient.fetch_*
    sym,           \* symbol argument of the fetch helper
    tier,          \* index into attempts of fetch_equity_daily (0: no ladder)
    last_error,    \* last_error of fetch_equity_daily
    ladderLog,     \* the _request calls of the ladder so far, with how each ended
    fetchOut,      \* how the fetch helper ended
    \* ---- run()
    tickers,       \* load_tickers(...): the instrument descriptors
    idx,           \* position of the loop over tickers
    raw,           \* raw_dir: symbol -> cached payload file (or NoFile)
    raw0,          \* raw_dir as it was when run() started
    payload,       \* payload of the instrument being processed
    successes,
    failures,
    price_frames,
    api_calls,
    outputs,       \* what _write_csvs wrote: NoOutputs or the run record
    runOut,        \* how run() ended
    obsFailed,     \* symbols whose fetch or parse raised
    obsRows,       \* symbol -> rows of the frame its parse returned (0: none)
    \* ---- RateLimiter
    clock,         \* time.monotonic()
    rl_last_call,  \* RateLimiter._last_call
    rl_now,        \* local now of wait()
    rl_pc,         \* position inside wait()
    rl_returns,    \* wait() calls that returned
    rl_ret,        \* the clock when the last wait() returned
    rl_prev,       \* the clock when the wait() before that returned
    rl_slept,      \* whether the current (or last) wait() slept
    \* ---- transforms._finalize_prices, features._trend_regime, _vol_regime
    df_arg,        \* the frame the function was called with
    df,            \* local df of _finalize_prices
    q_low,         \* local q_low of _vol_regime, in hundredths
    q_high,        \* local q_high of _vol_regime, in hundredths
    df_ret         \* what the function returned: a frame or a column of labels

clientVars == <<attempt, resp, reqOut, reqWaits, reqGets, reqSleeps, thrSeen,
               thrJsonSeen, gets, sleeps>>
fetchVars == <<sym, tier, last_error, ladderLog, fetchOut>>
runVars == <<tickers, idx, raw, raw0, payload, successes, failures, price_frames,
             api_calls, outputs, runOut, obsFailed, obsRows>>
limiterVars == <<clock, rl_last_call, rl_now, rl_pc, rl_returns, rl_ret,
                rl_prev, rl_slept>>
frameVars == <<df_arg, df, q_low, q_high, df_ret>>
vars == <<settings, stack, pc, clientVars, fetchVars, runVars, limiterVars, frameVars>>

\* ------------------------------------------------------------------ bounds
MaxRetries == 3
MaxRows == 2
MaxTickers == 2
MaxClock == 6
MaxInterval == 2
MaxWaits == 3
MaxRunRetries == 2
MaxDay == 2
MaxSeries == 3
MaxClose == 2
MaxVol == 2
MaxVolRows == 4
MaxMa == 3
MaxTrendRows == 1

\* ------------------------------------------------------- program constants
HTTP_OK == 200
HTTP_TOO_MANY_REQUESTS == 429

\* ---------------------------------------------------------------- helpers
Last(s) == s[Len(s)]

Caller == IF Len(stack) >= 2 THEN stack[Len(stack) - 1] ELSE "none"

Push(f) == Append(stack, f)

Pop == SubSeq(stack, 1, Len(stack) - 1)

\* ------------------------------------------------------- errors, payloads
NoError == [cls |-> "none", text |-> "none", tier |-> 0, attempt |-> 0]

\* AlphaVantageError(text): text names the response key (or the literal) the
\* message was taken from; tier and attempt tell which response that was.
AlphaVantageError(text) ==
    [cls |-> "AlphaVantageError", text |-> text, tier |-> tier, attempt |-> attempt]

\* An exception session.get raises itself (requests.RequestException).
TransportError ==
    [cls |-> "RequestException", text |-> "transport", tier |-> tier, attempt |-> attempt]

\* ValueError raised below _request: by the timeout check of the transport
\* adapter or by time.sleep for a negative length.
ValueError(text) ==
    [cls |-> "ValueError", text |-> text, tier |-> tier, attempt |-> attempt]

NoPayload == [rows |-> 0, source_function |-> "none", symbol |-> 0, tier |-> 0, attempt |-> 0]

NoOut == [state |-> "none", payload |-> NoPayload, error |-> NoError]

Returned(p) == [state |-> "return", payload |-> p, error |-> NoError]

Raised(e) == [state |-> "raise", payload |-> NoPayload, error |-> e]

\* ------------------------------------------------------------- responses
\* What session.get hands back: an exception, a body that is not JSON, or a
\* JSON object with any combination of the three marker keys.  rows is the
\* number of days in the time series of the body (0: no series at all).
NoResp ==
    [kind |-> "none", status |-> HTTP_OK, info |-> FALSE, note |-> FALSE,
     err |-> FALSE, rows |-> 0]

JsonResponses ==
    [kind : {"json"}, status : {HTTP_OK, HTTP_TOO_MANY_REQUESTS}, info : BOOLEAN,
     note : BOOLEAN, err : BOOLEAN, rows : 0..MaxRows]

Responses ==
    {r \in JsonResponses : (r.info \/ r.note \/ r.err) => r.rows = 0}
    \cup [kind : {"nonjson"}, status : {HTTP_OK, HTTP_TOO_MANY_REQUESTS},
          info : {FALSE}, note : {FALSE}, err : {FALSE}, rows : {0}]
    \cup [kind : {"exception"}, status : {HTTP_OK}, info : {FALSE}, note : {FALSE},
          err : {FALSE}, rows : {0}]

\* "Information" in payload (line 83)
HasInformation(r) == r.info

\* response.status_code == 429 or "Note" in payload (line 87)
IsThrottled(r) == r.status = HTTP_TOO_MANY_REQUESTS \/ r.note

\* "Error Message" in payload (line 94)
HasErrorMessage(r) == r.err

\* payload.get("Note", "Rate limited") (line 90)
ThrottleText(r) == IF r.note THEN "Note" ELSE "Rate limited"

\* A body that parses as a JSON object, carries none of the three markers and
\* did not come with status 429.
IsClean(r) ==
    r.kind = "json" /\ r.status # HTTP_TOO_MANY_REQUESTS /\ ~r.info /\ ~r.note /\ ~r.err

\* -------------------------------------------- AlphaVantageClient._request
\* Faulty variant of Classify: the throttle test comes before the Information
\* test.
ClassifyInformationAfterThrottle(r) ==
    IF r.kind = "nonjson" THEN "invalid"
    ELSE IF IsThrottled(r) THEN "throttle"
    ELSE IF HasInformation(r) THEN "information"
    ELSE IF HasErrorMessage(r) THEN "error"
    ELSE "return"

\* Faulty variant of Classify: the Error Message test is missing.
ClassifyErrorAfterReturn(r) ==
    IF r.kind = "nonjson" THEN "invalid"
    ELSE IF HasInformation(r) THEN "information"
    ELSE IF IsThrottled(r) THEN "throttle"
    ELSE "return"

\* The branch the body of the loop takes on a response (lines 76-97).
Classify(r) ==
    IF r.kind = "nonjson" THEN "invalid"
    ELSE IF HasInformation(r) THEN "information"
    ELSE IF IsThrottled(r) THEN "throttle"
    ELSE IF HasErrorMessage(r) THEN "error"
    ELSE "return"

\* Faulty variant of IsLastAttempt: gives up one attempt early.
IsLastAttemptOffByOne == attempt >= settings.max_retries - 1

\* attempt == self.settings.max_retries (line 89)
IsLastAttempt == attempt = settings.max_retries

\* The frame of a new _request call (lines 64-71).
BeginRequest ==
    /\ stack' = Push("_request")
    /\ pc' = "req_loop"
    /\ attempt' = 1
    /\ resp' = NoResp
    /\ reqOut' = NoOut
    /\ reqWaits' = 0
    /\ reqGets' = 0
    /\ reqSleeps' = 0
    /\ thrSeen' = 0
    /\ thrJsonSeen' = 0

\* The frame of _request is gone once its caller has taken the result.
EndRequest ==
    /\ stack' = Pop
    /\ attempt' = 0
    /\ resp' = NoResp
    /\ reqOut' = NoOut
    /\ reqWaits' = 0
    /\ reqGets' = 0
    /\ reqSleeps' = 0
    /\ thrSeen' = 0
    /\ thrJsonSeen' = 0
    /\ UNCHANGED <<gets, sleeps>>

\* range(1, max_retries + 1) is empty: the loop is skipped (lines 71, 99).
ReqNoAttempt ==
    /\ Last(stack) = "_request" /\ pc = "req_loop"
    /\ attempt > settings.max_retries
    /\ reqOut' = Raised(AlphaVantageError("Failed to fetch data after retries."))
    /\ pc' = "req_done"
    /\ UNCHANGED <<settings, frameVars, stack, attempt, resp, reqWaits, reqGets, reqSleeps,
                   thrSeen, thrJsonSeen, gets, sleeps, fetchVars, runVars, limiterVars>>

\* rate_limiter.wait(), then session.get answers r (lines 72-75).
WaitAndGet(r) ==
    /\ Last(stack) = "_request" /\ pc = "req_loop"
    /\ attempt <= settings.max_retries
    /\ settings.alpha_vantage_timeout > 0
    /\ reqWaits' = reqWaits + 1
    /\ reqGets' = reqGets + 1
    /\ gets' = gets + 1
    /\ resp' = r
    /\ thrSeen' = thrSeen + (IF IsThrottled(r) THEN 1 ELSE 0)
    /\ thrJsonSeen' =
         thrJsonSeen + (IF r.kind = "json" /\ ~r.info /\ IsThrottled(r) THEN 1 ELSE 0)
    /\ UNCHANGED <<settings, frameVars, stack, fetchVars, runVars, limiterVars>>

\* How an attempt that ends the call leaves _request.
Finish(out) ==
    /\ reqOut' = out
    /\ pc' = "req_done"
    /\ UNCHANGED <<attempt, reqSleeps, sleeps>>

\* session.get raises; nothing in _request catches it (lines 73-75).
ReqTransportError ==
    \E r \in Responses :
        /\ r.kind = "exception"
        /\ WaitAndGet(r)
        /\ Finish(Raised(TransportError))

\* response.json() fails (lines 76-81).
ReqInvalidJson ==
    \E r \in Responses :
        /\ r.kind \in {"json", "nonjson"} /\ Classify(r) = "invalid"
        /\ WaitAndGet(r)
        /\ Finish(Raised(AlphaVantageError("Invalid JSON response")))

\* lines 83-85
ReqInformation ==
    \E r \in Responses :
        /\ r.kind \in {"json", "nonjson"} /\ Classify(r) = "information"
        /\ WaitAndGet(r)
        /\ Finish(Raised(AlphaVantageError("Information")))

\* lines 87, 91-92: throttled with attempts left: back off and go round again.
ReqThrottleRetry ==
    \E r \in Responses :
        /\ r.kind \in {"json", "nonjson"} /\ Classify(r) = "throttle"
        /\ ~IsLastAttempt
        /\ settings.backoff_seconds >= 0
        /\ WaitAndGet(r)
        /\ reqSleeps' = reqSleeps + 1
        /\ sleeps' = sleeps + 1
        /\ attempt' = attempt + 1
        /\ UNCHANGED <<pc, reqOut>>

\* lines 87-90: throttled on the last attempt.
ReqThrottleExhausted ==
    \E r \in Responses :
        /\ r.kind \in {"json", "nonjson"} /\ Classify(r) = "throttle"
        /\ IsLastAttempt
        /\ WaitAndGet(r)
        /\ Finish(Raised(AlphaVantageError(ThrottleText(r))))

\* lines 94-95
ReqErrorMessage ==
    \E r \in Responses :
        /\ r.kind \in {"json", "nonjson"} /\ Classify(r) = "error"
        /\ WaitAndGet(r)
        /\ Finish(Raised(AlphaVantageError("Error Message")))

\* line 97
ReqReturn ==
    \E r \in Responses :
        /\ r.kind \in {"json", "nonjson"} /\ Classify(r) = "return"
        /\ WaitAndGet(r)
        /\ Finish(Returned([rows |-> r.rows, source_function |-> "none", symbol |-> 0,
                            tier |-> tier, attempt |-> attempt]))

\* lines 72-75 with timeout <= 0: after rate_limiter.wait(), session.get
\* raises ValueError while building the timeout, before anything is sent.
ReqInvalidTimeout ==
    /\ Last(stack) = "_request" /\ pc = "req_loop"
    /\ attempt <= settings.max_retries
    /\ settings.alpha_vantage_timeout <= 0
    /\ reqWaits' = reqWaits + 1
    /\ Finish(Raised(ValueError("timeout")))
    /\ UNCHANGED <<settings, frameVars, stack, resp, reqGets, thrSeen, thrJsonSeen, gets,
                   fetchVars, runVars, limiterVars>>

\* lines 87, 91 with backoff_seconds < 0: time.sleep raises ValueError.
ReqInvalidBackoff ==
    \E r \in Responses :
        /\ r.kind \in {"json", "nonjson"} /\ Classify(r) = "throttle"
        /\ ~IsLastAttempt
        /\ settings.backoff_seconds < 0
        /\ WaitAndGet(r)
        /\ Finish(Raised(ValueError("sleep length must be non-negative")))

\* The ways through _request that only a non-positive timeout or a negative
\* backoff opens.
NextRequestMisconfigured ==
    \/ ReqInvalidTimeout
    \/ ReqInvalidBackoff

NextRequest ==
    \/ ReqNoAttempt
    \/ ReqTransportError
    \/ ReqInvalidJson
    \/ ReqInformation
    \/ ReqThrottleRetry
    \/ ReqThrottleExhausted
    \/ ReqErrorMessage
    \/ ReqReturn

\* ------------------------------------ AlphaVantageClient.fetch_equity_daily
\* Faulty variant of Attempts: the compact tier carries the adjusted tag.
AttemptsCompactMistagged ==
    << [function |-> "TIME_SERIES_DAILY_ADJUSTED", outputsize |-> "full",
        source_function |-> "TIME_SERIES_DAILY_ADJUSTED"],
       [function |-> "TIME_SERIES_DAILY", outputsize |-> "full",
        source_function |-> "TIME_SERIES_DAILY"],
       [function |-> "TIME_SERIES_DAILY", outputsize |-> "compact",
        source_function |-> "TIME_SERIES_DAILY_ADJUSTED"] >>

\* attempts (lines 103-122)
Attempts ==
    << [function |-> "TIME_SERIES_DAILY_ADJUSTED", outputsize |-> "full",
        source_function |-> "TIME_SERIES_DAILY_ADJUSTED"],
       [function |-> "TIME_SERIES_DAILY", outputsize |-> "full",
        source_function |-> "TIME_SERIES_DAILY"],
       [function |-> "TIME_SERIES_DAILY", outputsize |-> "compact",
        source_function |-> "TIME_SERIES_DAILY"] >>

\* Faulty variant of Absorbs: a bare except.
AbsorbsEverything(e) == TRUE

\* except AlphaVantageError as exc (line 133): the errors the ladder absorbs.
Absorbs(e) == e.cls = "AlphaVantageError"

\* Faulty variant of NextLastError: the first error is kept.
KeepFirstError(e) == IF last_error = NoError THEN e ELSE last_error

\* last_error = exc (line 134)
NextLastError(e) == e

\* ladderLog with the result of the call in progress filled in.
Closed(result) == [ladderLog EXCEPT ![Len(ladderLog)].result = result]

\* for params in attempts: ... self._request(...) (lines 125-129)
EqCall ==
    /\ Last(stack) = "fetch_equity_daily" /\ pc = "eq_loop"
    /\ tier <= Len(Attempts)
    /\ BeginRequest
    /\ ladderLog' = Append(ladderLog, [function |-> Attempts[tier].function,
                                       outputsize |-> Attempts[tier].outputsize,
                                       result |-> "pending"])
    /\ UNCHANGED <<settings, frameVars, gets, sleeps, sym, tier, last_error, fetchOut, runVars,
                   limiterVars>>

\* lines 130-132: the first tier that succeeds is tagged and returned.
EqReturn ==
    /\ Last(stack) = "_request" /\ pc = "req_done" /\ Caller = "fetch_equity_daily"
    /\ reqOut.state = "return"
    /\ fetchOut' = Returned([reqOut.payload EXCEPT
                               !.source_function = Attempts[tier].source_function,
                               !.symbol = sym])
    /\ ladderLog' = Closed("return")
    /\ EndRequest
    /\ pc' = "fetch_done"
    /\ UNCHANGED <<settings, frameVars, sym, tier, last_error, runVars, limiterVars>>

\* lines 133-135: an AlphaVantageError is kept and the next tier is tried.
EqAbsorb ==
    /\ Last(stack) = "_request" /\ pc = "req_done" /\ Caller = "fetch_equity_daily"
    /\ reqOut.state = "raise" /\ Absorbs(reqOut.error)
    /\ last_error' = NextLastError(reqOut.error)
    /\ ladderLog' = Closed(reqOut.error.cls)
    /\ tier' = tier + 1
    /\ EndRequest
    /\ pc' = "eq_loop"
    /\ UNCHANGED <<settings, frameVars, sym, fetchOut, runVars, limiterVars>>

\* Any other exception leaves fetch_equity_daily at once (line 133 does not
\* match it).
EqEscape ==
    /\ Last(stack) = "_request" /\ pc = "req_done" /\ Caller = "fetch_equity_daily"
    /\ reqOut.state = "raise" /\ ~Absorbs(reqOut.error)
    /\ fetchOut' = Raised(reqOut.error)
    /\ ladderLog' = Closed(reqOut.error.cls)
    /\ EndRequest
    /\ pc' = "fetch_done"
    /\ UNCHANGED <<settings, frameVars, sym, tier, last_error, runVars, limiterVars>>

\* raise last_error or AlphaVantageError(f"Failed to fetch {symbol}") (line 136)
EqExhausted ==
    /\ Last(stack) = "fetch_equity_daily" /\ pc = "eq_loop"
    /\ tier > Len(Attempts)
    /\ fetchOut' = Raised(IF last_error = NoError
                            THEN AlphaVantageError("Failed to fetch")
                            ELSE last_error)
    /\ pc' = "fetch_done"
    /\ UNCHANGED <<settings, frameVars, stack, clientVars, sym, tier, last_error, ladderLog,
                   runVars, limiterVars>>

NextEquity ==
    \/ EqCall
    \/ EqReturn
    \/ EqAbsorb
    \/ EqEscape
    \/ EqExhausted

\* ------------------- AlphaVantageClient.fetch_fx_daily, fetch_crypto_daily
\* The one endpoint of an asset class without a ladder, and its tag.
SingleTag(frame) ==
    IF frame = "fetch_fx_daily" THEN "FX_DAILY" ELSE "DIGITAL_CURRENCY_DAILY"

\* lines 140-147, 153-159
SingleCall ==
    /\ Last(stack) \in {"fetch_fx_daily", "fetch_crypto_daily"} /\ pc = "single_call"
    /\ BeginRequest
    /\ UNCHANGED <<settings, frameVars, gets, sleeps, fetchVars, runVars, limiterVars>>

\* lines 148-150, 160-163
SingleReturn ==
    /\ Last(stack) = "_request" /\ pc = "req_done"
    /\ Caller \in {"fetch_fx_daily", "fetch_crypto_daily"}
    /\ reqOut.state = "return"
    /\ fetchOut' = Returned([reqOut.payload EXCEPT
                               !.source_function = SingleTag(Caller),
                               !.symbol = sym])
    /\ EndRequest
    /\ pc' = "fetch_done"
    /\ UNCHANGED <<settings, frameVars, sym, tier, last_error, ladderLog, runVars,
                   limiterVars>>

\* No handler in either helper: whatever _request raises propagates.
SingleRaise ==
    /\ Last(stack) = "_request" /\ pc = "req_done"
    /\ Caller \in {"fetch_fx_daily", "fetch_crypto_daily"}
    /\ reqOut.state = "raise"
    /\ fetchOut' = Raised(reqOut.error)
    /\ EndRequest
    /\ pc' = "fetch_done"
    /\ UNCHANGED <<settings, frameVars, sym, tier, last_error, ladderLog, runVars,
                   limiterVars>>

NextSingle ==
    \/ SingleCall
    \/ SingleReturn
    \/ SingleRaise

\* ------------------------------------------------------------------ run()
Symbols == 1..MaxTickers

\* asset_class values of the ticker file; fetch_payload and _parse_payload
\* support the first three.
AssetClasses == {"Equity", "FX", "Crypto", "Bond"}

\* Position of an asset class in the order load_tickers sorts by
\* (tickers.py line 50: string order of asset_class first).
ClassRank(c) ==
    CASE c = "Bond" -> 0
      [] c = "Crypto" -> 1
      [] c = "Equity" -> 2
      [] OTHER -> 3

\* What load_tickers can return: descriptors in (asset_class, group, symbol)
\* order; the group leaves the order of symbols inside a class open.
TickerLists ==
    {t \in UNION {[1..n -> [symbol : Symbols, asset_class : AssetClasses]] :
                    n \in 0..MaxTickers} :
        /\ \A i, j \in DOMAIN t : i # j => t[i].symbol # t[j].symbol
        /\ \A i, j \in DOMAIN t : i < j =>
              ClassRank(t[i].asset_class) <= ClassRank(t[j].asset_class)}

NoFile == [rows |-> 0, source_function |-> "absent", symbol |-> 0, tier |-> 0, attempt |-> 0]

\* payload.get("source_function", <default>) of the three parsers
\* (transforms.py lines 45, 67, 102).
DefaultTag(c) ==
    CASE c = "Equity" -> "TIME_SERIES_DAILY"
      [] c = "FX" -> "FX_DAILY"
      [] OTHER -> "DIGITAL_CURRENCY_DAILY"

\* A payload file an earlier process left under raw_dir for ticker t.
CachedFiles(t) ==
    {[rows |-> n, source_function |-> DefaultTag(t.asset_class), symbol |-> t.symbol,
      tier |-> 0, attempt |-> 0] : n \in {0, MaxRows}}

Ticker == tickers[idx]

RECURSIVE SumRows(_)
SumRows(frames) ==
    IF frames = <<>> THEN 0 ELSE frames[1].rows + SumRows(Tail(frames))

SetMin(S) == CHOOSE m \in S : \A x \in S : m <= x

Range(s) == {s[i] : i \in DOMAIN s}

RemoveAt(s, i) == SubSeq(s, 1, i - 1) \o SubSeq(s, i + 1, Len(s))

\* sorted(...) of a list of symbols
RECURSIVE Sorted(_)
Sorted(s) ==
    IF s = <<>> THEN <<>>
    ELSE LET m == SetMin(Range(s))
             i == CHOOSE k \in DOMAIN s : s[k] = m
         IN  <<m>> \o Sorted(RemoveAt(s, i))

\* analytics.py lines 79-100
build_etl_metadata(tickers_succeeded, tickers_failed, rows_written, calls) ==
    [rows_written |-> rows_written,
     tickers_succeeded |-> Sorted(tickers_succeeded),
     tickers_failed |-> Sorted(tickers_failed),
     api_calls |-> calls]

NoOutputs == [written |-> FALSE, fact_prices |-> 0,
              etl_metadata |-> build_etl_metadata(<<>>, <<>>, 0, 0)]

\* Faulty variant of Catches: except AlphaVantageError.
CatchesProviderErrorOnly(e) == e.cls = "AlphaVantageError"

\* except Exception as exc (line 103)
Catches(e) ==
    e.cls \in {"AlphaVantageError", "RequestException", "KeyError", "ValueError"}

\* Faulty variant of NothingFetched: any failure aborts the run.
NothingFetchedWhenAnyFailed == failures # <<>>

\* if not price_frames (line 107)
NothingFetched == price_frames = <<>>

\* The handler of the loop body (lines 103-105), or the way out of run()
\* through finally (lines 174-175) for an exception it does not match.
Handle(e) ==
    IF Catches(e)
      THEN /\ failures' = Append(failures, Ticker.symbol)
           /\ idx' = idx + 1
           /\ pc' = "run_loop"
           /\ runOut' = runOut
      ELSE /\ failures' = failures
           /\ idx' = idx
           /\ pc' = "run_done"
           /\ runOut' = Raised(e)

\* Faulty variant of raw_path_exists: the raw directory is never consulted.
raw_path_never_exists == FALSE

\* raw_path.exists() (line 92) for the current ticker
raw_path_exists == raw[Ticker.symbol] # NoFile

\* The asset classes _parse_payload has a parser for (lines 38-43).
Parseable(c) == c \in {"Equity", "FX", "Crypto"}

\* lines 92-94: the raw file exists and is loaded instead of fetching.
RunCacheHit ==
    /\ Last(stack) = "run" /\ pc = "run_loop"
    /\ idx <= Len(tickers)
    /\ raw_path_exists
    /\ payload' = raw[Ticker.symbol]
    /\ pc' = "run_parse"
    /\ UNCHANGED <<settings, frameVars, stack, clientVars, fetchVars, tickers, idx, raw, raw0,
                   successes, failures, price_frames, api_calls, outputs, runOut, obsFailed, obsRows,
                   limiterVars>>

\* The frame of a fetch helper called for the current ticker.
BeginFetch(frame, at) ==
    /\ Last(stack) = "run" /\ pc = "run_loop"
    /\ idx <= Len(tickers)
    /\ ~raw_path_exists
    /\ stack' = Push(frame)
    /\ pc' = at
    /\ sym' = Ticker.symbol
    /\ fetchOut' = NoOut
    /\ UNCHANGED <<settings, frameVars, clientVars, runVars, limiterVars>>

\* line 96 with fetch_payload lines 167-168
RunFetchEquity ==
    /\ BeginFetch("fetch_equity_daily", "eq_loop")
    /\ Ticker.asset_class = "Equity"
    /\ tier' = 1
    /\ last_error' = NoError
    /\ ladderLog' = <<>>

\* line 96 with fetch_payload lines 169-170
RunFetchFx ==
    /\ BeginFetch("fetch_fx_daily", "single_call")
    /\ Ticker.asset_class = "FX"
    /\ tier' = 0
    /\ UNCHANGED <<last_error, ladderLog>>

\* line 96 with fetch_payload lines 171-173
RunFetchCrypto ==
    /\ BeginFetch("fetch_crypto_daily", "single_call")
    /\ Ticker.asset_class = "Crypto"
    /\ tier' = 0
    /\ UNCHANGED <<last_error, ladderLog>>

\* line 96 with fetch_payload line 174: no helper for the asset class.
RunFetchUnsupported ==
    /\ Last(stack) = "run" /\ pc = "run_loop"
    /\ idx <= Len(tickers)
    /\ ~raw_path_exists
    /\ Ticker.asset_class \notin {"Equity", "FX", "Crypto"}
    /\ Handle([cls |-> "AlphaVantageError", text |-> "Unsupported asset class",
               tier |-> 0, attempt |-> 0])
    /\ obsFailed' = obsFailed \cup {Ticker.symbol}
    /\ UNCHANGED <<settings, frameVars, stack, clientVars, fetchVars, tickers, raw, raw0, payload,
                   successes, price_frames, api_calls, outputs, obsRows, limiterVars>>

\* The frame of the fetch helper is gone once run() has taken the result.
EndFetch ==
    /\ stack' = Pop
    /\ sym' = 0
    /\ tier' = 0
    /\ last_error' = NoError
    /\ ladderLog' = <<>>
    /\ fetchOut' = NoOut

\* lines 96-99: the helper returned; count the call and write the raw file.
RunFetched ==
    /\ Len(stack) >= 2 /\ Caller = "run" /\ pc = "fetch_done"
    /\ fetchOut.state = "return"
    /\ payload' = fetchOut.payload
    /\ api_calls' = api_calls + 1
    /\ raw' = [raw EXCEPT ![Ticker.symbol] = fetchOut.payload]
    /\ EndFetch
    /\ pc' = "run_parse"
    /\ UNCHANGED <<settings, frameVars, clientVars, tickers, idx, raw0, successes,
                   failures, price_frames, outputs, runOut, obsFailed, obsRows, limiterVars>>

\* lines 96, 103-105: the helper raised.
RunFetchFailed ==
    /\ Len(stack) >= 2 /\ Caller = "run" /\ pc = "fetch_done"
    /\ fetchOut.state = "raise"
    /\ EndFetch
    /\ Handle(fetchOut.error)
    /\ obsFailed' = obsFailed \cup {Ticker.symbol}
    /\ UNCHANGED <<settings, frameVars, clientVars, tickers, raw, raw0, payload,
                   successes, price_frames, api_calls, outputs, obsRows, limiterVars>>

\* lines 100-102: _parse_payload gives a frame of payload.rows rows.
RunParsed ==
    /\ Last(stack) = "run" /\ pc = "run_parse"
    /\ Parseable(Ticker.asset_class)
    /\ payload.rows > 0
    /\ price_frames' = Append(price_frames, [symbol |-> Ticker.symbol, rows |-> payload.rows])
    /\ successes' = Append(successes, Ticker.symbol)
    /\ idx' = idx + 1
    /\ pc' = "run_loop"
    /\ payload' = NoPayload
    /\ obsRows' = [obsRows EXCEPT ![Ticker.symbol] = payload.rows]
    /\ UNCHANGED <<settings, frameVars, stack, clientVars, fetchVars, tickers, raw, raw0,
                   failures, api_calls, outputs, runOut, obsFailed, limiterVars>>

\* lines 100, 103-105: the payload has no usable series and the parser raises
\* (AlphaVantageError in parse_equity, KeyError in the others), or
\* _parse_payload has no parser for the asset class (line 44).
RunParseFailed ==
    /\ Last(stack) = "run" /\ pc = "run_parse"
    /\ payload.rows = 0 \/ ~Parseable(Ticker.asset_class)
    /\ Handle([cls |-> IF Ticker.asset_class \in {"FX", "Crypto"} THEN "KeyError"
                       ELSE "AlphaVantageError",
               text |-> "Unexpected payload", tier |-> 0, attempt |-> 0])
    /\ payload' = NoPayload
    /\ obsFailed' = obsFailed \cup {Ticker.symbol}
    /\ UNCHANGED <<settings, frameVars, stack, clientVars, fetchVars, tickers, raw, raw0,
                   successes, price_frames, api_calls, outputs, obsRows, limiterVars>>

\* lines 107-108
RunAbort ==
    /\ Last(stack) = "run" /\ pc = "run_loop"
    /\ idx > Len(tickers)
    /\ NothingFetched
    /\ runOut' = Raised([cls |-> "RuntimeError", text |-> "No price data fetched; aborting.",
                         tier |-> 0, attempt |-> 0])
    /\ pc' = "run_done"
    /\ UNCHANGED <<settings, frameVars, stack, clientVars, fetchVars, tickers, idx, raw, raw0,
                   payload, successes, failures, price_frames, api_calls, outputs,
                   obsFailed, obsRows, limiterVars>>

\* lines 110-173: features, tables, the run record, _write_csvs.
RunAssemble ==
    /\ Last(stack) = "run" /\ pc = "run_loop"
    /\ idx > Len(tickers)
    /\ ~NothingFetched
    /\ outputs' = [written |-> TRUE,
                   fact_prices |-> SumRows(price_frames),
                   etl_metadata |-> build_etl_metadata(successes, failures,
                                                       SumRows(price_frames), api_calls)]
    /\ runOut' = Returned(NoPayload)
    /\ pc' = "run_done"
    /\ UNCHANGED <<settings, frameVars, stack, clientVars, fetchVars, tickers, idx, raw, raw0,
                   payload, successes, failures, price_frames, api_calls, obsFailed, obsRows, limiterVars>>

\* lines 64-85: settings, directories, tickers, AlphaVantageClient(settings)
\* (__post_init__ builds the limiter and the session from the settings as
\* they are), the empty lists.  No value of the settings is examined.
RunStart ==
    /\ Last(stack) = "run" /\ pc = "run_start"
    /\ pc' = "run_loop"
    /\ UNCHANGED <<settings, frameVars, stack, clientVars, fetchVars, runVars, limiterVars>>

NextRun ==
    \/ RunCacheHit
    \/ RunFetchEquity
    \/ RunFetchFx
    \/ RunFetchCrypto
    \/ RunFetchUnsupported
    \/ RunFetched
    \/ RunFetchFailed
    \/ RunParsed
    \/ RunParseFailed
    \/ RunAbort
    \/ RunAssemble

\* ------------------------------------------------------------ RateLimiter
\* remaining = self.min_interval_seconds - (now - self._last_call) (lines 31-32)
Remaining(now) == settings.alpha_vantage_min_interval_seconds - (now - rl_last_call)

\* Faulty variant of Stamp: the reading taken before the sleep is stored.
StampBeforeSleep == rl_now

\* self._last_call = time.monotonic() (line 35)
Stamp == clock

\* Time passes, whatever the program is doing.
Tick ==
    /\ clock < MaxClock
    /\ clock' = clock + 1
    /\ UNCHANGED <<settings, frameVars, stack, pc, clientVars, fetchVars, runVars, rl_last_call,
                   rl_now, rl_pc, rl_returns, rl_ret, rl_prev, rl_slept>>

\* lines 30-33: read the clock and decide whether to sleep.
WaitRead ==
    /\ Last(stack) = "wait" /\ rl_pc = "idle"
    /\ rl_returns < MaxWaits
    /\ rl_now' = clock
    /\ rl_pc' = IF Remaining(clock) > 0 THEN "sleep" ELSE "stamp"
    /\ rl_slept' = FALSE
    /\ UNCHANGED <<settings, frameVars, stack, pc, clientVars, fetchVars, runVars, clock,
                   rl_last_call, rl_returns, rl_ret, rl_prev>>

\* line 34: time.sleep(remaining) suspends for at least remaining.
WaitSleep ==
    /\ Last(stack) = "wait" /\ rl_pc = "sleep"
    /\ \E t \in (clock + Remaining(rl_now))..MaxClock : clock' = t
    /\ rl_pc' = "stamp"
    /\ rl_slept' = TRUE
    /\ UNCHANGED <<settings, frameVars, stack, pc, clientVars, fetchVars, runVars, rl_last_call,
                   rl_now, rl_returns, rl_ret, rl_prev>>

\* line 35, and the return of wait()
WaitStamp ==
    /\ Last(stack) = "wait" /\ rl_pc = "stamp"
    /\ rl_last_call' = Stamp
    /\ rl_returns' = rl_returns + 1
    /\ rl_prev' = rl_ret
    /\ rl_ret' = clock
    /\ rl_pc' = "idle"
    /\ UNCHANGED <<settings, frameVars, stack, pc, clientVars, fetchVars, runVars, clock, rl_now,
                   rl_slept>>

NextLimiter ==
    \/ Tick
    \/ WaitRead
    \/ WaitSleep
    \/ WaitStamp

\* ------------------------------------------------------ float columns
\* A float of a column: NaN, or a number.
NaN == [nan |-> TRUE, v |-> 0]

Num(x) == [nan |-> FALSE, v |-> x]

\* Comparisons of floats: any comparison with NaN is false.
Lt(a, b) == ~a.nan /\ ~b.nan /\ a.v < b.v

Le(a, b) == ~a.nan /\ ~b.nan /\ a.v <= b.v

Gt(a, b) == Lt(b, a)

Ge(a, b) == Le(b, a)

\* ------------------------------------------- transforms._finalize_prices
\* Frames are sequences of rows; a row carries its index label.
FrameUnchanged == UNCHANGED <<settings, clientVars, fetchVars, runVars, limiterVars>>

\* The keys of a provider series: a calendar day, written with or without a
\* time of day.  Keys of one JSON object are distinct strings.
DateStrings == [day : 1..MaxDay, time : BOOLEAN]

\* pd.to_datetime(date_str).normalize() (transforms.py lines 11-12): the
\* time of day is dropped.
to_date(date_str) == date_str.day

\* The series of a payload: key -> metrics, in the order of the payload.
SeriesValues ==
    {series \in UNION {[1..n -> [key : DateStrings, close : 1..MaxClose]] :
                         n \in 0..MaxSeries} :
        \A i, j \in DOMAIN series : i # j => series[i].key # series[j].key}

\* The frame a parser builds from a series (transforms.py lines 27-48,
\* 53-70, 76-105): one row per key, in payload order, index 0..n-1.
ParsedRows(series) ==
    [i \in DOMAIN series |->
        [index |-> i - 1, date |-> to_date(series[i].key), ticker |-> 1,
         close |-> series[i].close]]

\* df.sort_values("date") (line 109): the default kind is quicksort, which
\* leaves the order of rows with equal dates open.
SortValuesByDate(f) ==
    {g \in [DOMAIN f -> Range(f)] :
        /\ Range(g) = Range(f)
        /\ \A i, j \in DOMAIN g : i < j => g[i].date <= g[j].date}

RECURSIVE Pick(_, _, _)
Pick(f, K, i) ==
    IF i > Len(f) THEN <<>>
    ELSE (IF i \in K THEN <<f[i]>> ELSE <<>>) \o Pick(f, K, i + 1)

\* .drop_duplicates(subset=["date", "ticker"], keep="last") (line 109)
DropDuplicatesKeepLast(f) ==
    Pick(f, {i \in DOMAIN f :
               \A j \in DOMAIN f :
                  j > i => <<f[j].date, f[j].ticker>> # <<f[i].date, f[i].ticker>>}, 1)

\* df.reset_index(drop=True) (line 110)
ResetIndex(f) == [i \in DOMAIN f |-> [f[i] EXCEPT !.index = i - 1]]

\* line 109 on a frame without rows: pd.DataFrame([]) has no "date" column
\* and sort_values raises KeyError.
FinKeyError ==
    /\ Last(stack) = "_finalize_prices" /\ pc = "fin_sort"
    /\ df_arg = <<>>
    /\ pc' = "fin_raised"
    /\ UNCHANGED <<stack, frameVars>>
    /\ FrameUnchanged

FinSort ==
    /\ Last(stack) = "_finalize_prices" /\ pc = "fin_sort"
    /\ df_arg # <<>>
    /\ df' \in SortValuesByDate(df_arg)
    /\ pc' = "fin_dedup"
    /\ UNCHANGED <<stack, df_arg, q_low, q_high, df_ret>>
    /\ FrameUnchanged

FinDropDuplicates ==
    /\ Last(stack) = "_finalize_prices" /\ pc = "fin_dedup"
    /\ df' = DropDuplicatesKeepLast(df)
    /\ pc' = "fin_reset"
    /\ UNCHANGED <<stack, df_arg, q_low, q_high, df_ret>>
    /\ FrameUnchanged

FinResetIndex ==
    /\ Last(stack) = "_finalize_prices" /\ pc = "fin_reset"
    /\ df_ret' = ResetIndex(df)
    /\ pc' = "fin_done"
    /\ UNCHANGED <<stack, df_arg, df, q_low, q_high>>
    /\ FrameUnchanged

NextFinalize ==
    \/ FinKeyError
    \/ FinSort
    \/ FinDropDuplicates
    \/ FinResetIndex

\* ---------------------------------------------------- features._vol_regime
\* Values of the vol_60 column: NaN while the 60-day window is not full.
Vols == {NaN} \cup {Num(x) : x \in 0..MaxVol}

\* The numbers of a column, NaN left out, in ascending order.
RECURSIVE Numbers(_)
Numbers(col) ==
    IF col = <<>> THEN <<>>
    ELSE (IF col[1].nan THEN <<>> ELSE <<col[1].v>>) \o Numbers(Tail(col))

\* Series.quantile(p / 100) in hundredths: linear interpolation between the
\* order statistics around position (n - 1) * p / 100 of the numbers of the
\* column; NaN when there are none.
Quantile(col, p) ==
    LET x == Sorted(Numbers(col))
        n == Len(x)
        h == (n - 1) * p
        lo == (h \div 100) + 1
        frac == h % 100
    IN  IF n = 0 THEN NaN
        ELSE IF frac = 0 THEN Num(100 * x[lo])
        ELSE Num(100 * x[lo] + frac * (x[lo + 1] - x[lo]))

\* A value of the column on the scale of the quantiles.
Hundredths(a) == [a EXCEPT !.v = 100 * a.v]

\* Faulty variant of VolLabel: the conditions are tested in the other order.
VolLabelHighFirst(vol) ==
    IF Ge(Hundredths(vol), q_high) THEN "High"
    ELSE IF Le(Hundredths(vol), q_low) THEN "Low"
    ELSE "Med"

\* np.select([vol <= q_low, vol >= q_high], ["Low", "High"], default="Med")
\* (lines 73-77): the first condition that holds gives the label.
VolLabel(vol) ==
    IF Le(Hundredths(vol), q_low) THEN "Low"
    ELSE IF Ge(Hundredths(vol), q_high) THEN "High"
    ELSE "Med"

\* lines 68-71
VolQuantiles ==
    /\ Last(stack) = "_vol_regime" /\ pc = "vol_quantiles"
    /\ q_low' = Quantile([i \in DOMAIN df_arg |-> df_arg[i].vol_60], 33)
    /\ q_high' = Quantile([i \in DOMAIN df_arg |-> df_arg[i].vol_60], 67)
    /\ pc' = "vol_select"
    /\ UNCHANGED <<stack, df_arg, df, df_ret>>
    /\ FrameUnchanged

\* lines 72-79
VolSelect ==
    /\ Last(stack) = "_vol_regime" /\ pc = "vol_select"
    /\ df_ret' = [i \in DOMAIN df_arg |-> VolLabel(df_arg[i].vol_60)]
    /\ pc' = "vol_done"
    /\ UNCHANGED <<stack, df_arg, df, q_low, q_high>>
    /\ FrameUnchanged

NextVol ==
    \/ VolQuantiles
    \/ VolSelect

\* -------------------------------------------------- features._trend_regime
\* Values of the ma_20, ma_50 and ma_200 columns: NaN while the window is
\* not full.
Mas == {NaN} \cup {Num(x) : x \in 1..MaxMa}

\* Faulty variant of CondUp: the comparisons are not strict.
CondUpNonStrict(row) == Ge(row.ma_20, row.ma_50) /\ Ge(row.ma_50, row.ma_200)

\* cond_up (line 55)
CondUp(row) == Gt(row.ma_20, row.ma_50) /\ Gt(row.ma_50, row.ma_200)

\* cond_down (line 56)
CondDown(row) == Lt(row.ma_20, row.ma_50) /\ Lt(row.ma_50, row.ma_200)

\* np.select([cond_up, cond_down], ["Up", "Down"], default="Sideways")
\* (lines 58-62): the first condition that holds gives the label.
TrendLabel(conds) ==
    IF conds.cond_up THEN "Up"
    ELSE IF conds.cond_down THEN "Down"
    ELSE "Sideways"

\* lines 55-56
TrendConditions ==
    /\ Last(stack) = "_trend_regime" /\ pc = "trend_conditions"
    /\ df' = [i \in DOMAIN df_arg |->
                [cond_up |-> CondUp(df_arg[i]), cond_down |-> CondDown(df_arg[i])]]
    /\ pc' = "trend_select"
    /\ UNCHANGED <<stack, df_arg, q_low, q_high, df_ret>>
    /\ FrameUnchanged

\* lines 57-64
TrendSelect ==
    /\ Last(stack) = "_trend_regime" /\ pc = "trend_select"
    /\ df_ret' = [i \in DOMAIN df |-> TrendLabel(df[i])]
    /\ pc' = "trend_done"
    /\ UNCHANGED <<stack, df_arg, df, q_low, q_high>>
    /\ FrameUnchanged

NextTrend ==
    \/ TrendConditions
    \/ TrendSelect

\* ---------------------------------------------------------- initial states
\* Settings() (settings.py lines 9-29): no field is validated, so the
\* pipeline can be started with any integer in max_retries.  The other
\* fields are given usable values here.
SettingsWith(retries, interval) ==
    [alpha_vantage_api_key |-> "key",
     alpha_vantage_timeout |-> 1,
     alpha_vantage_min_interval_seconds |-> interval,
     max_retries |-> retries,
     backoff_seconds |-> 1]

\* Every Settings value load_settings accepts (settings.py lines 30-34: only
\* a missing key or a value of the wrong type is a ValidationError).
SettingsValues ==
    [alpha_vantage_api_key : {"", "key"},
     alpha_vantage_timeout : 0..1,
     alpha_vantage_min_interval_seconds : 0..1,
     max_retries : 0..MaxRunRetries,
     backoff_seconds : (-1)..1]

InitClientIdle ==
    /\ attempt = 0
    /\ resp = NoResp
    /\ reqOut = NoOut
    /\ reqWaits = 0
    /\ reqGets = 0
    /\ reqSleeps = 0
    /\ thrSeen = 0
    /\ thrJsonSeen = 0
    /\ gets = 0
    /\ sleeps = 0

InitFetchIdle ==
    /\ sym = 0
    /\ tier = 0
    /\ last_error = NoError
    /\ ladderLog = <<>>
    /\ fetchOut = NoOut

InitRunIdle ==
    /\ tickers = <<>>
    /\ idx = 1
    /\ raw = [s \in Symbols |-> NoFile]
    /\ raw0 = [s \in Symbols |-> NoFile]
    /\ payload = NoPayload
    /\ successes = <<>>
    /\ failures = <<>>
    /\ price_frames = <<>>
    /\ api_calls = 0
    /\ outputs = NoOutputs
    /\ runOut = NoOut
    /\ obsFailed = {}
    /\ obsRows = [s \in Symbols |-> 0]

\* No frame function has been called.
InitFrameIdle ==
    /\ df_arg = <<>>
    /\ df = <<>>
    /\ q_low = NaN
    /\ q_high = NaN
    /\ df_ret = <<>>

\* RateLimiter.__init__ (lines 25-27)
InitLimiterIdle ==
    /\ clock = 0
    /\ rl_last_call = 0
    /\ rl_now = 0
    /\ rl_pc = "idle"
    /\ rl_returns = 0
    /\ rl_ret = 0
    /\ rl_prev = 0
    /\ rl_slept = FALSE

\* A fresh RateLimiter, constructed at any reading of the monotonic clock.
InitLimiter ==
    /\ \E i \in (-1)..MaxInterval : settings = SettingsWith(MaxRetries, i)
    /\ stack = <<"wait">>
    /\ pc = "wait"
    /\ InitClientIdle /\ InitFetchIdle /\ InitRunIdle /\ InitFrameIdle
    /\ clock \in 0..MaxClock
    /\ rl_last_call = 0
    /\ rl_now = 0
    /\ rl_pc = "idle"
    /\ rl_returns = 0
    /\ rl_ret = 0
    /\ rl_prev = 0
    /\ rl_slept = FALSE

\* A call of _request on a fresh client.
InitRequest ==
    /\ \E m \in 0..MaxRetries : settings = SettingsWith(m, MaxInterval)
    /\ stack = <<"_request">>
    /\ pc = "req_loop"
    /\ attempt = 1
    /\ resp = NoResp
    /\ reqOut = NoOut
    /\ reqWaits = 0
    /\ reqGets = 0
    /\ reqSleeps = 0
    /\ thrSeen = 0
    /\ thrJsonSeen = 0
    /\ gets = 0
    /\ sleeps = 0
    /\ InitFetchIdle /\ InitRunIdle /\ InitLimiterIdle /\ InitFrameIdle

\* A call of fetch_equity_daily on a fresh client.
InitEquity ==
    /\ \E m \in 0..MaxRetries : settings = SettingsWith(m, MaxInterval)
    /\ stack = <<"fetch_equity_daily">>
    /\ pc = "eq_loop"
    /\ InitClientIdle
    /\ sym \in Symbols
    /\ tier = 1
    /\ last_error = NoError
    /\ ladderLog = <<>>
    /\ fetchOut = NoOut
    /\ InitRunIdle /\ InitLimiterIdle /\ InitFrameIdle

\* run() after load_settings, load_tickers and AlphaVantageClient(settings)
\* (lines 64-85), over any ticker list and any content of raw_dir.
Init ==
    /\ \E m \in 0..MaxRunRetries : settings = SettingsWith(m, MaxInterval)
    /\ stack = <<"run">>
    /\ pc = "run_loop"
    /\ InitClientIdle /\ InitFetchIdle /\ InitLimiterIdle /\ InitFrameIdle
    /\ tickers \in TickerLists
    /\ idx = 1
    /\ raw \in {f \in [Symbols -> UNION {CachedFiles(tickers[i]) : i \in DOMAIN tickers}
                                    \cup {NoFile}] :
                  \A s \in Symbols : f[s] # NoFile => f[s].symbol = s}
    /\ raw0 = raw
    /\ payload = NoPayload
    /\ successes = <<>>
    /\ failures = <<>>
    /\ price_frames = <<>>
    /\ api_calls = 0
    /\ outputs = NoOutputs
    /\ runOut = NoOut
    /\ obsFailed = {}
    /\ obsRows = [s \in Symbols |-> 0]

\* run() entered with any accepted Settings, one instrument and any content of
\* raw_dir.
InitConfig ==
    /\ settings \in SettingsValues
    /\ stack = <<"run">>
    /\ pc = "run_start"
    /\ InitClientIdle /\ InitFetchIdle /\ InitLimiterIdle /\ InitFrameIdle
    /\ tickers \in {t \in TickerLists : Len(t) = 1}
    /\ idx = 1
    /\ raw \in {f \in [Symbols -> CachedFiles(tickers[1]) \cup {NoFile}] :
                  \A s \in Symbols : f[s] # NoFile => f[s].symbol = s}
    /\ raw0 = raw
    /\ payload = NoPayload
    /\ successes = <<>>
    /\ failures = <<>>
    /\ price_frames = <<>>
    /\ api_calls = 0
    /\ outputs = NoOutputs
    /\ runOut = NoOut
    /\ obsFailed = {}
    /\ obsRows = [s \in Symbols |-> 0]

\* The state outside the frame functions when one of them is called alone.
InitFrameCall(name, at) ==
    /\ settings = SettingsWith(MaxRetries, MaxInterval)
    /\ stack = <<name>>
    /\ pc = at
    /\ InitClientIdle /\ InitFetchIdle /\ InitRunIdle /\ InitLimiterIdle

\* _finalize_prices called by a parser on the rows of any series.
InitFinalize ==
    /\ InitFrameCall("_finalize_prices", "fin_sort")
    /\ \E series \in SeriesValues : df_arg = ParsedRows(series)
    /\ df = <<>>
    /\ q_low = NaN
    /\ q_high = NaN
    /\ df_ret = <<>>

\* _vol_regime called on the frame of one instrument.
InitVol ==
    /\ InitFrameCall("_vol_regime", "vol_quantiles")
    /\ df_arg \in UNION {[1..n -> [vol_60 : Vols]] : n \in 0..MaxVolRows}
    /\ df = <<>>
    /\ q_low = NaN
    /\ q_high = NaN
    /\ df_ret = <<>>

\* _trend_regime called on the frame of one instrument.
InitTrend ==
    /\ InitFrameCall("_trend_regime", "trend_conditions")
    /\ df_arg \in UNION {[1..n -> [ma_20 : Mas, ma_50 : Mas, ma_200 : Mas]] :
                           n \in 0..MaxTrendRows}
    /\ df = <<>>
    /\ q_low = NaN
    /\ q_high = NaN
    /\ df_ret = <<>>

\* ---------------------------------------------------------- specifications
Next == NextRun \/ NextEquity \/ NextSingle \/ NextRequest

Spec == Init /\ [][Next]_vars

SpecRequest == InitRequest /\ [][NextRequest]_vars

SpecEquity == InitEquity /\ [][NextEquity \/ NextRequest]_vars

SpecLimiter == InitLimiter /\ [][NextLimiter]_vars

NextConfig ==
    \/ RunStart
    \/ NextRun
    \/ NextEquity
    \/ NextSingle
    \/ NextRequest
    \/ NextRequestMisconfigured

SpecConfig == InitConfig /\ [][NextConfig]_vars

SpecFinalize == InitFinalize /\ [][NextFinalize]_vars

SpecVol == InitVol /\ [][NextVol]_vars

SpecTrend == InitTrend /\ [][NextTrend]_vars

\* ------------------------------------------------------------------ claims
\* The payload _request hands back when the last response is returned.
PayloadOfLastResponse ==
    [rows |-> resp.rows, source_function |-> "none", symbol |-> 0, tier |-> tier,
     attempt |-> reqGets]

\* The error _request raises from the text under key k of the last response.
ErrorOfLastResponse(k) ==
    [cls |-> "AlphaVantageError", text |-> k, tier |-> tier, attempt |-> reqGets]

\* The outcome C1 describes, once _request has ended after n throttle
\* answers: with every answer a throttle, all max_retries attempts were made
\* and the error carries the Note of the last one ("Rate limited" when it
\* has none); with the throttles followed by one clean answer, that payload
\* is returned after as many waits as calls and one sleep per throttle.
ThrottleOutcome(n) ==
    (pc = "req_done" /\ reqGets >= 1) =>
        /\ n = reqGets =>
              /\ reqGets = settings.max_retries
              /\ reqOut = Raised(ErrorOfLastResponse(
                                   IF resp.note THEN "Note" ELSE "Rate limited"))
        /\ (n = reqGets - 1 /\ IsClean(resp)) =>
              /\ reqGets <= settings.max_retries
              /\ reqOut = Returned(PayloadOfLastResponse)
              /\ reqWaits = reqGets
              /\ reqSleeps = reqGets - 1

\* C1 as stated: a throttle is any answer with status 429 or a Note key.
\* N-1 throttles and a clean answer give the payload after N waits, N calls
\* and N-1 sleeps; max_retries throttles give the last throttle message.
C1_AnyThrottleIsRetried == ThrottleOutcome(thrSeen)

\* C1 amended: the same, for throttle answers that are JSON objects without
\* an Information key (a 429 whose body is not JSON, or has the Information
\* key, ends the call at once with another error).
C1_JsonThrottleIsRetried == ThrottleOutcome(thrJsonSeen)

C1_Witness ==
    /\ pc = "req_done" /\ stack = <<"_request">>
    /\ reqOut.state = "return"
    /\ thrJsonSeen = 2 /\ reqGets = 3 /\ reqSleeps = 2

ErrorMessageOutcome ==
    /\ pc = "req_done"
    /\ reqOut = Raised(ErrorOfLastResponse("Error Message"))
    /\ reqSleeps = reqGets - 1

\* C6 as stated: every answer with the Error Message key, whatever else it
\* carries, ends _request at once with the provider's error message.
C6_ErrorMessageAlwaysFailsAtOnce ==
    (resp.kind = "json" /\ resp.err) => ErrorMessageOutcome

\* C6 amended: an answer with the Error Message key that has no Information
\* key, no Note key and not status 429 ends _request at once with the
\* provider's error message.
C6_ErrorMessageFailsAtOnce ==
    (resp.kind = "json" /\ resp.err /\ ~resp.info /\ ~resp.note
        /\ resp.status # HTTP_TOO_MANY_REQUESTS) => ErrorMessageOutcome

C6_Witness ==
    /\ pc = "req_done" /\ stack = <<"_request">>
    /\ resp.kind = "json" /\ resp.err /\ ~resp.info /\ ~resp.note
    /\ resp.status = HTTP_OK
    /\ reqOut.error.text = "Error Message"
    /\ reqGets = 3

\* The endpoints of the ladder, in the order C2 gives them.
LadderOrder ==
    << [function |-> "TIME_SERIES_DAILY_ADJUSTED", outputsize |-> "full"],
       [function |-> "TIME_SERIES_DAILY", outputsize |-> "full"],
       [function |-> "TIME_SERIES_DAILY", outputsize |-> "compact"] >>

\* C2: the i-th _request of fetch_equity_daily goes to the i-th endpoint of
\* the ladder (adjusted full, unadjusted full, unadjusted compact); it is
\* made only after every earlier one raised AlphaVantageError; a call that
\* returns is the last one, and the payload handed back is its payload.
C2_LadderOrder ==
    /\ Len(ladderLog) <= Len(LadderOrder)
    /\ \A i \in DOMAIN ladderLog :
          /\ ladderLog[i].function = LadderOrder[i].function
          /\ ladderLog[i].outputsize = LadderOrder[i].outputsize
          /\ \A j \in 1..(i - 1) : ladderLog[j].result = "AlphaVantageError"
          /\ ladderLog[i].result = "return" =>
                /\ i = Len(ladderLog)
                /\ pc = "fetch_done"
                /\ fetchOut.state = "return"
                /\ fetchOut.payload.tier = i

C2_Witness ==
    /\ pc = "fetch_done" /\ stack = <<"fetch_equity_daily">>
    /\ Len(ladderLog) = 2
    /\ ladderLog[1].result = "AlphaVantageError"
    /\ ladderLog[2].result = "return"
    /\ fetchOut.payload.rows > 0

\* fetch_equity_daily returned, and only the compact endpoint succeeded.
OnlyCompactSucceeded ==
    /\ pc = "fetch_done" /\ Last(stack) = "fetch_equity_daily"
    /\ fetchOut.state = "return"
    /\ Len(ladderLog) = 3

AllTiersFailed ==
    /\ pc = "fetch_done" /\ Last(stack) = "fetch_equity_daily"
    /\ Len(ladderLog) = 3
    /\ \A i \in 1..3 : ladderLog[i].result = "AlphaVantageError"

\* C4: when all three tiers raise AlphaVantageError, fetch_equity_daily
\* raises the error of the third tier, not the first's or the second's.
C4_LastErrorSurfaces ==
    AllTiersFailed =>
        /\ fetchOut.state = "raise"
        /\ fetchOut.error.cls = "AlphaVantageError"
        /\ fetchOut.error.tier = 3
        /\ fetchOut.error = last_error

C4_Witness ==
    /\ AllTiersFailed
    /\ stack = <<"fetch_equity_daily">>
    /\ fetchOut.error.text = "Error Message"
    /\ fetchOut.error.attempt = 2

\* C7: with min_interval > 0, a wait() returns at least min_interval after
\* the wait() before it returned, and no step lowers _last_call.
C7_Spacing ==
    [][/\ rl_last_call' >= rl_last_call
       /\ (settings.alpha_vantage_min_interval_seconds > 0
             /\ rl_returns' = rl_returns + 1 /\ rl_returns >= 1)
          => rl_ret' - rl_prev' >= settings.alpha_vantage_min_interval_seconds]_vars

C7_Witness ==
    /\ settings.alpha_vantage_min_interval_seconds = 2
    /\ rl_returns = 3 /\ rl_pc = "idle" /\ rl_slept
    /\ rl_ret - rl_prev = 2

\* C8: the first wait() of a fresh RateLimiter does not sleep, whatever
\* min_interval is and whatever the clock reads.
C8_FirstWaitNeverSleeps == rl_returns = 0 => rl_pc # "sleep"

\* The symbols of the ticker list, and those the loop has been through.
AllSymbols == {tickers[i].symbol : i \in DOMAIN tickers}

Processed == {tickers[i].symbol : i \in 1..(idx - 1)}

\* The symbols a parse returned a frame for.
ObsParsed == {s \in Symbols : obsRows[s] > 0}

\* q lists exactly the members of S, each once.
Lists(q, S) == Range(q) = S /\ Len(q) = Cardinality(S)

Increasing(q) == \A i, j \in DOMAIN q : i < j => q[i] < q[j]

RECURSIVE RowsOf(_)
RowsOf(S) ==
    IF S = {} THEN 0
    ELSE LET s == CHOOSE x \in S : TRUE IN obsRows[s] + RowsOf(S \ {s})

C10_AbortIffNothingUsable ==
    /\ successes = <<>> <=> ObsParsed = {}
    /\ pc = "run_done" =>
          /\ idx > Len(tickers)
          /\ runOut.state = "raise" <=> ObsParsed = {}
          /\ runOut.state = "return" <=> ObsParsed # {}
          /\ outputs.written <=> ObsParsed # {}
    /\ runOut.state = "raise" => outputs = NoOutputs
    /\ pc # "run_done" => runOut = NoOut /\ outputs = NoOutputs

C10_Witness ==
    /\ pc = "run_done" /\ runOut.state = "raise"
    /\ Len(tickers) = 2 /\ Len(failures) = 2
    /\ outputs = NoOutputs
    /\ gets = 3

\* ---- C11: raw payload cache
\* Symbols whose raw file this run wrote.
WrittenByRun(files) == {s \in Symbols : raw0[s] = NoFile /\ files[s] # NoFile}

\* What a step of run() may do to the cache and the client, seen from the
\* instrument being processed.
CacheStep ==
    LET present == idx <= Len(tickers) /\ raw[Ticker.symbol] # NoFile
        entersParse == pc # "run_parse" /\ pc' = "run_parse"
    IN  \* a file that is there is never written again
        /\ \A s \in Symbols : raw[s] # NoFile => raw'[s] = raw[s]
        \* the limiter, the session and the counter move only for an
        \* instrument without a file
        /\ (gets' # gets \/ reqWaits' > reqWaits \/ api_calls' # api_calls
              \/ Len(stack') > Len(stack))
             => idx <= Len(tickers) /\ raw[Ticker.symbol] = NoFile
        \* what reaches the parser
        /\ entersParse /\ present =>
             /\ payload' = raw[Ticker.symbol]
             /\ payload' = raw0[Ticker.symbol] \/ Ticker.symbol \in WrittenByRun(raw)
             /\ Len(stack) = 1
        /\ entersParse /\ ~present =>
             /\ fetchOut.state = "return"
             /\ payload' = fetchOut.payload
             /\ raw'[Ticker.symbol] = fetchOut.payload
             /\ payload'.symbol = Ticker.symbol
             /\ api_calls' = api_calls + 1
        \* one fetch_payload that returned per file written
        /\ api_calls' = Cardinality(WrittenByRun(raw'))

\* C11: an instrument whose raw file is present when it is processed is not
\* fetched (no limiter wait, no outbound call, api_calls unchanged), its file
\* is left as it is and its content is what the parser gets; an instrument
\* without a file is fetched once and the tagged payload the fetch returned
\* is in the file before the parser runs.
C11_CacheHitSkipsFetch == [][CacheStep]_vars

C11_Witness ==
    /\ runOut.state = "return"
    /\ \E s, t \in Symbols :
         /\ raw0[s] # NoFile /\ raw[s] = raw0[s] /\ obsRows[s] > 0
         /\ raw0[t] = NoFile /\ raw[t] # NoFile /\ obsRows[t] > 0
    /\ api_calls = 1
    /\ gets >= 1

\* ---- C12: the call count of the run record
\* C12: the api_calls value of the run record equals the number of outbound
\* calls (session.get) the run made.
C12_ApiCallsCountsOutboundCalls ==
    outputs.written => outputs.etl_metadata.api_calls = gets

\* ---- C13: configuration
\* The settings the specification calls invalid.
InvalidConfig ==
    \/ settings.alpha_vantage_api_key = ""
    \/ settings.alpha_vantage_timeout <= 0
    \/ settings.alpha_vantage_min_interval_seconds <= 0
    \/ settings.max_retries <= 0
    \/ settings.backoff_seconds <= 0

\* C13: with an empty credential or a non-positive timing value the run
\* fails at startup: no rate-limiter wait and no outbound call is ever made,
\* and no table is written.
C13_InvalidConfigNeverFetches ==
    InvalidConfig => /\ reqWaits = 0
                     /\ gets = 0
                     /\ ~outputs.written

\* ---- C14: deduplication in _finalize_prices
\* The close of the occurrence of date d that comes last in the payload.
LastOccurrence(d) ==
    LET last == CHOOSE i \in DOMAIN df_arg :
                  /\ df_arg[i].date = d
                  /\ \A j \in DOMAIN df_arg : df_arg[j].date = d => j <= i
    IN  df_arg[last].close

\* C14: the frame _finalize_prices returns is strictly increasing by date,
\* has exactly one row for every date of the input, and for a date that
\* occurs more than once the row holds the values of the occurrence that
\* comes last in the payload.
C14_FinalizeKeepsLastOccurrence ==
    pc = "fin_done" =>
        /\ \A i, j \in DOMAIN df_ret : i < j => df_ret[i].date < df_ret[j].date
        /\ {df_ret[i].date : i \in DOMAIN df_ret} = {df_arg[i].date : i \in DOMAIN df_arg}
        /\ \A i \in DOMAIN df_ret : df_ret[i].close = LastOccurrence(df_ret[i].date)

\* ---- C15: volatility regime
\* C15: with q33 and q67 the 33rd and 67th percentile of the instrument's
\* vol_60, a row is "Low" exactly when its vol_60 is below q33, "High"
\* exactly when it is at or above q67, and "Med" otherwise.
C15_LowIsStrictlyBelowQ33 ==
    pc = "vol_done" =>
        \A i \in DOMAIN df_ret :
            LET vol == Hundredths(df_arg[i].vol_60)
            IN  /\ df_ret[i] = "Low" <=> Lt(vol, q_low)
                /\ df_ret[i] = "High" <=> Ge(vol, q_high)
                /\ df_ret[i] = "Med" <=> ~Lt(vol, q_low) /\ ~Ge(vol, q_high)

\* C15, as the code has it: a row is "Low" exactly when its vol_60 is at or
\* below q33, "High" exactly when it is above q33 and at or above q67, and
\* "Med" otherwise, rows without a vol_60 among them; q33 <= q67, and the
\* smallest vol_60 of the instrument is always "Low".
C15_LowIsAtOrBelowQ33 ==
    pc = "vol_done" =>
        /\ \A i \in DOMAIN df_ret :
            LET vol == Hundredths(df_arg[i].vol_60)
            IN  /\ df_ret[i] \in {"Low", "High", "Med"}
                /\ df_ret[i] = "Low" <=> Le(vol, q_low)
                /\ df_ret[i] = "High" <=> ~Le(vol, q_low) /\ Ge(vol, q_high)
                /\ vol.nan => df_ret[i] = "Med"
        /\ DOMAIN df_ret = DOMAIN df_arg
        /\ q_low.nan <=> \A i \in DOMAIN df_arg : df_arg[i].vol_60.nan
        /\ q_high.nan <=> q_low.nan
        /\ ~q_low.nan => q_low.v <= q_high.v
        /\ \A i \in DOMAIN df_arg :
              (~df_arg[i].vol_60.nan
                 /\ \A j \in DOMAIN df_arg : ~Lt(df_arg[j].vol_60, df_arg[i].vol_60))
              => df_ret[i] = "Low"

C15_Witness ==
    /\ pc = "vol_done"
    /\ \E i, j, k \in DOMAIN df_ret :
         /\ Hundredths(df_arg[i].vol_60) = q_low /\ df_ret[i] = "Low"
         /\ df_ret[j] = "High"
         /\ df_ret[k] = "Med" /\ ~df_arg[k].vol_60.nan

\* ---- C16: trend regime
AllDefined(row) == ~row.ma_20.nan /\ ~row.ma_50.nan /\ ~row.ma_200.nan

\* C16: a row is "Up" iff its three moving averages are defined and
\* ma20 > ma50 > ma200, "Down" iff they are defined and ma20 < ma50 < ma200,
\* and "Sideways" in every other case; there is one label per row and no
\* other label.
C16_TrendLabels ==
    pc = "trend_done" =>
        /\ DOMAIN df_ret = DOMAIN df_arg
        /\ \A i \in DOMAIN df_ret :
            LET row == df_arg[i]
                up == /\ AllDefined(row)
                      /\ row.ma_20.v > row.ma_50.v /\ row.ma_50.v > row.ma_200.v
                down == /\ AllDefined(row)
                        /\ row.ma_20.v < row.ma_50.v /\ row.ma_50.v < row.ma_200.v
            IN  /\ df_ret[i] \in {"Up", "Down", "Sideways"}
                /\ df_ret[i] = "Up" <=> up
                /\ df_ret[i] = "Down" <=> down
                /\ df_ret[i] = "Sideways" <=> ~up /\ ~down

C16_Witness ==
    /\ pc = "trend_done"
    /\ \E i \in DOMAIN df_ret :
         /\ AllDefined(df_arg[i])
         /\ df_arg[i].ma_20.v > df_arg[i].ma_50.v
         /\ df_arg[i].ma_50.v > df_arg[i].ma_200.v
         /\ df_ret[i] = "Up"

====
